---------------------------- MODULE Spec2Model ----------------------------
(***************************************************************************)
(* LocalView-Highlight: two Blender viewport-border addons                 *)
(* (autokey_highlight, localview_highlight) and the release script.        *)
(*                                                                         *)
(*   Spec          the two addons' register / unregister / file-load /     *)
(*                 flag-notification life cycle                            *)
(*   SpecDraw      the two draw_callback_px paint callbacks                *)
(*   SpecRelease   release.py: main() with its prompts                     *)
(*   SpecRoundTrip update_version_files followed by the two readers        *)
(***************************************************************************)
EXTENDS Integers, Sequences, FiniteSets, TLC

VARIABLES
    \* ---- autokey_highlight/__init__.py ----
    ak_draw_handle,     \* module global draw_handle (None or a host handle)
    ak_handlers,        \* host: SpaceView3D draw handlers this addon added, not yet removed
    ak_subs,            \* host: msgbus subscriptions held under msgbus_owner
    ak_pending,         \* host: a change notification is waiting to be delivered
    ak_load_post,       \* host: copies of persistent_load_handler in load_post
    ak_classes,         \* host: AutokeyHighlightPreferences is registered
    ak_flag,            \* scene.tool_settings.use_keyframe_insert_auto
    areas,              \* host: area type of every area of every window
    ak_tagged,          \* areas tagged for redraw since draw_handle last changed in the last operation
    ak_changed,         \* the last operation changed draw_handle between None and a handle
    ak_log,             \* the toggle_border runs since the last other change of draw_handle (last two)
    ak_bad_remove,      \* draw_handler_remove was called with a handle the host does not hold
    ak_life,            \* "fresh", "registered" or "unregistered": the last life-cycle call
    ak_synced,          \* number of toggle_border runs of the last operation
    \* ---- localview_highlight/__init__.py ----
    lv_draw_handle,
    lv_handlers,
    lv_classes,
    lv_background,      \* bpy.app.background
    lv_bad_remove,
    ak_op,              \* the last autokey operation
    lv_op,              \* the last localview operation
    \* ---- the paint callbacks ----
    blend,              \* gpu.state blend mode
    region_width,
    region_height,
    border_width,       \* preferences.border_width
    local_view,         \* space_data.local_view is not None
    batches,            \* batch.draw calls of the last callback run: rectangle + blend state at the call
    blend_before,       \* blend mode when the last callback was entered
    blend_sets,         \* number of blend_set calls of the last callback run
    callback,           \* "none", "autokey" or "localview": the last callback run
    \* ---- release.py ----
    blender_ok,         \* os.path.isfile(path_to_blender)
    folder_ok,          \* os.path.isdir(<base>/autokey_highlight)
    dev,                \* args.dev
    init_file,          \* autokey_highlight/__init__.py
    toml_file,          \* autokey_highlight/blender_manifest.toml
    releases,           \* the Releases folder
    rl_pc,              \* where main() is: "start", a prompt, or "exit"
    version_init,
    version_toml,
    latest_zip_version,
    version_tuple,
    rl_printed,         \* the last message printed
    rl_outcome,         \* "running", "returned", "raised" or "built"
    rl_package,         \* the packaging command invoked, with the metadata versions at that time
    rl_writes,          \* update_version_files calls
    rl_input,           \* the last answer the user typed, and the prompt it answered
    rl_mismatch,        \* the answer given at the mismatch prompt, if any
    rt_version          \* round trip: the version update_version_files was given

addonVars == <<ak_draw_handle, ak_handlers, ak_subs, ak_pending, ak_load_post,
               ak_classes, ak_flag, areas, ak_tagged, ak_changed, ak_log,
               ak_bad_remove, ak_life, ak_synced, lv_draw_handle, lv_handlers,
               lv_classes, lv_background, lv_bad_remove, ak_op, lv_op>>

drawVars == <<blend, region_width, region_height, border_width, local_view,
              batches, blend_before, blend_sets, callback>>

releaseVars == <<blender_ok, folder_ok, dev, init_file, toml_file, releases,
                 rl_pc, version_init, version_toml, latest_zip_version,
                 version_tuple, rl_printed, rl_outcome, rl_package, rl_writes,
                 rl_input, rl_mismatch, rt_version>>

vars == <<addonVars, drawVars, releaseVars>>

----------------------------------------------------------------------------
(* Bounds of the model *)

MaxLoadPost == 2        \* register calls that append to load_post
MaxSubs == 3            \* msgbus subscriptions held at once
NumAreas == 2           \* areas over all windows
MaxDim == 9             \* region width and height, pixels
MaxBorderWidth == 3     \* preferences.border_width
MaxComponent == 10      \* a version component given to update_version_files

None == 0

AreaTypes == {"VIEW_3D", "OTHER"}
AreaIds == 1..NumAreas

----------------------------------------------------------------------------
(* Host draw-handler registry: SpaceView3D.draw_handler_add / _remove *)

\* a fresh handle, distinct from None and from every handle the host holds
NewHandle(handlers) ==
    CHOOSE h \in 1..(Cardinality(handlers) + 1) :
        /\ h \notin handlers
        /\ \A k \in 1..(Cardinality(handlers) + 1) : k \notin handlers => h <= k

draw_handler_add(handlers) == handlers \cup {NewHandle(handlers)}

draw_handler_remove(handlers, h) == handlers \ {h}

----------------------------------------------------------------------------
(* autokey_highlight *)

\* the part of the state toggle_border and its callers work on
AkWorld ==
    [draw_handle |-> ak_draw_handle, handlers |-> ak_handlers,
     subs |-> ak_subs, tagged |-> {}, changed |-> FALSE,
     log |-> ak_log, bad_remove |-> ak_bad_remove, synced |-> 0]

View3DAreas == {a \in AreaIds : areas[a] = "VIEW_3D"}

refresh_viewport(w) == [w EXCEPT !.tagged = w.tagged \cup View3DAreas]

Last2(s) == IF Len(s) > 2 THEN SubSeq(s, Len(s) - 1, Len(s)) ELSE s

\* a toggle that does not look at draw_handle
ToggleBranchUnguarded(autokey_enabled, draw_handle) ==
    IF autokey_enabled THEN "add"
    ELSE "remove"

\* the branch toggle_border takes: "add", "remove" or "none"
ToggleBranch(autokey_enabled, draw_handle) ==
    IF autokey_enabled /\ draw_handle = None THEN "add"
    ELSE IF ~autokey_enabled /\ draw_handle # None THEN "remove"
    ELSE "none"

toggle_border(w, autokey_enabled) ==
    LET br == ToggleBranch(autokey_enabled, w.draw_handle)
        w1 == CASE br = "add" ->
                    [w EXCEPT !.handlers = draw_handler_add(w.handlers),
                              !.draw_handle = NewHandle(w.handlers),
                              !.changed = TRUE, !.tagged = {}]
                [] br = "remove" ->
                    [w EXCEPT !.handlers = draw_handler_remove(w.handlers, w.draw_handle),
                              !.bad_remove = w.bad_remove \/ w.draw_handle \notin w.handlers,
                              !.draw_handle = None,
                              !.changed = TRUE, !.tagged = {}]
                [] OTHER -> w
        w2 == refresh_viewport(w1)
    IN [w2 EXCEPT !.synced = w.synced + 1,
                  !.log = Last2(Append(w.log,
                            [read |-> autokey_enabled, call |-> br,
                             after |-> w1.draw_handle # None]))]

subscribe_to_autokey(w) == [w EXCEPT !.subs = w.subs + 1]

unsubscribe_from_autokey(w) == [w EXCEPT !.subs = 0]

init_toggle_border(w, scene, autokey_enabled) ==
    IF scene THEN toggle_border(w, autokey_enabled) ELSE w

persistent_load_handler(w, scene, autokey_enabled) ==
    init_toggle_border(subscribe_to_autokey(w), scene, autokey_enabled)

RECURSIVE RunLoadPost(_, _, _, _)
\* the host runs every entry of bpy.app.handlers.load_post
RunLoadPost(w, n, scene, autokey_enabled) ==
    IF n = 0 THEN w
    ELSE RunLoadPost(persistent_load_handler(w, scene, autokey_enabled),
                     n - 1, scene, autokey_enabled)

RECURSIVE Notify(_, _, _)
\* the host calls notify=toggle_border once per subscription
Notify(w, n, autokey_enabled) ==
    IF n = 0 THEN w
    ELSE Notify(toggle_border(w, autokey_enabled), n - 1, autokey_enabled)

\* write a world back to the variables
AkStore(w) ==
    /\ ak_draw_handle' = w.draw_handle
    /\ ak_handlers' = w.handlers
    /\ ak_subs' = w.subs
    /\ ak_tagged' = w.tagged
    /\ ak_changed' = w.changed
    /\ ak_log' = w.log
    /\ ak_bad_remove' = w.bad_remove
    /\ ak_synced' = w.synced

lvVars == <<lv_draw_handle, lv_handlers, lv_classes, lv_background, lv_bad_remove,
            lv_op>>

\* register(): register_classes() raises when the class is already registered
AkRegister ==
    /\ ak_load_post < MaxLoadPost
    /\ ak_subs < MaxSubs
    /\ ak_op' = (IF ak_classes THEN "register_raised" ELSE "register")
    /\ IF ak_classes
       THEN /\ AkStore(AkWorld)
            /\ UNCHANGED <<ak_load_post, ak_classes, ak_life>>
       ELSE /\ ak_classes' = TRUE
            /\ ak_load_post' = ak_load_post + 1
            /\ AkStore(subscribe_to_autokey(AkWorld))
            /\ ak_life' = "registered"
    /\ UNCHANGED <<ak_pending, ak_flag, areas>>
    /\ UNCHANGED lvVars
    /\ UNCHANGED <<drawVars, releaseVars>>

\* unregister()
AkUnregisterWorld(w) ==
    LET w1 == unsubscribe_from_autokey(w)
    IN IF w1.draw_handle # None
       THEN [w1 EXCEPT !.handlers = draw_handler_remove(w1.handlers, w1.draw_handle),
                       !.bad_remove = w1.bad_remove \/ w1.draw_handle \notin w1.handlers,
                       !.draw_handle = None,
                       !.changed = TRUE, !.tagged = {},
                       !.log = <<>>]
       ELSE w1

AkUnregister ==
    /\ ak_op' = "unregister"
    /\ AkStore(AkUnregisterWorld(AkWorld))
    /\ ak_pending' = FALSE
    /\ ak_classes' = FALSE
    /\ ak_life' = "unregistered"
    /\ UNCHANGED <<ak_load_post, ak_flag, areas>>
    /\ UNCHANGED lvVars
    /\ UNCHANGED <<drawVars, releaseVars>>

\* the host loads a file: the scene (and its flag) is replaced without any
\* change notification, the msgbus subscriptions may be dropped, and every
\* load_post entry runs
AkFileLoad ==
    \E cleared \in BOOLEAN, flag \in BOOLEAN, scene \in BOOLEAN :
        LET w0 == IF cleared THEN [AkWorld EXCEPT !.subs = 0] ELSE AkWorld
        IN /\ w0.subs + ak_load_post <= MaxSubs
           /\ ak_op' = "file_load"
           /\ ak_flag' = flag
           /\ ak_pending' = (ak_pending /\ ~cleared)
           /\ AkStore(RunLoadPost(w0, ak_load_post, scene, flag))
           /\ UNCHANGED <<ak_load_post, ak_classes, ak_life, areas>>
           /\ UNCHANGED lvVars
           /\ UNCHANGED <<drawVars, releaseVars>>

\* the user (or a script) writes the auto-keyframe flag
AkSetFlag ==
    \E v \in BOOLEAN :
        /\ ak_op' = "set_flag"
        /\ ak_flag' = v
        /\ ak_pending' = (ak_subs > 0)
        /\ AkStore(AkWorld)
        /\ UNCHANGED <<ak_load_post, ak_classes, ak_life, areas>>
        /\ UNCHANGED lvVars
        /\ UNCHANGED <<drawVars, releaseVars>>

\* the host delivers the change notification to every subscriber
AkNotify ==
    /\ ak_pending
    /\ ak_op' = "notify"
    /\ ak_pending' = FALSE
    /\ AkStore(Notify(AkWorld, ak_subs, ak_flag))
    /\ UNCHANGED <<ak_load_post, ak_classes, ak_life, ak_flag, areas>>
    /\ UNCHANGED lvVars
    /\ UNCHANGED <<drawVars, releaseVars>>

akVars == <<ak_draw_handle, ak_handlers, ak_subs, ak_pending, ak_load_post,
            ak_classes, ak_flag, areas, ak_tagged, ak_changed, ak_log,
            ak_bad_remove, ak_life, ak_synced, ak_op>>

----------------------------------------------------------------------------
(* localview_highlight *)

\* register(): the handle and the host registry after the call
LvRegisterHandle(draw_handle, handlers, background) ==
    IF background THEN <<draw_handle, handlers>>
    ELSE IF draw_handle = None
         THEN <<NewHandle(handlers), draw_handler_add(handlers)>>
         ELSE <<draw_handle, handlers>>

LvRegister ==
    /\ lv_op' = (IF lv_classes THEN "register_raised" ELSE "register")
    /\ IF lv_classes
       THEN UNCHANGED <<lv_draw_handle, lv_handlers, lv_classes>>
       ELSE LET r == LvRegisterHandle(lv_draw_handle, lv_handlers, lv_background)
            IN /\ lv_classes' = TRUE
               /\ lv_draw_handle' = r[1]
               /\ lv_handlers' = r[2]
    /\ UNCHANGED <<lv_background, lv_bad_remove>>
    /\ UNCHANGED akVars
    /\ UNCHANGED <<drawVars, releaseVars>>

\* an unregister that removes the handler and keeps the stale handle
LvUnregisterHandleStale(draw_handle, handlers) ==
    IF draw_handle # None
    THEN <<draw_handle, draw_handler_remove(handlers, draw_handle)>>
    ELSE <<draw_handle, handlers>>

\* unregister(): the handle and the host registry after the call
LvUnregisterHandle(draw_handle, handlers) ==
    IF draw_handle # None
    THEN <<None, draw_handler_remove(handlers, draw_handle)>>
    ELSE <<draw_handle, handlers>>

LvUnregister ==
    LET r == LvUnregisterHandle(lv_draw_handle, lv_handlers)
    IN /\ lv_op' = "unregister"
       /\ lv_draw_handle' = r[1]
       /\ lv_handlers' = r[2]
       /\ lv_bad_remove' = (lv_bad_remove \/
                              (lv_draw_handle # None /\ lv_draw_handle \notin lv_handlers))
       /\ lv_classes' = FALSE
       /\ UNCHANGED lv_background
       /\ UNCHANGED akVars
       /\ UNCHANGED <<drawVars, releaseVars>>


----------------------------------------------------------------------------
(* Properties of the addons' life cycle (Spec) *)

\* C1: after a toggle_border run draw_handle is a handle iff the flag value
\* the run read was true, and a run that reads the same value as the run
\* before it calls neither draw_handler_add nor draw_handler_remove.
C1_ToggleFollowsFlag ==
    /\ \A i \in 1..Len(ak_log) : ak_log[i].after <=> ak_log[i].read
    /\ ak_synced > 0 => ((ak_draw_handle # None) <=> ak_log[Len(ak_log)].read)
    /\ (Len(ak_log) = 2 /\ ak_log[1].read = ak_log[2].read)
          => ak_log[2].call = "none"

\* two runs in a row read true: the first added the handler, the second did nothing
C1_Witness ==
    /\ Len(ak_log) = 2
    /\ ak_log[1] = [read |-> TRUE, call |-> "add", after |-> TRUE]
    /\ ak_log[2].read
    /\ ak_synced > 0
    /\ ak_draw_handle # None

\* C2: each addon has at most one paint callback added and not removed,
\* exactly one iff its draw_handle is a handle (the handle the host holds),
\* and no handle is removed twice.
C2_AtMostOneHandler ==
    /\ Cardinality(ak_handlers) <= 1
    /\ (Cardinality(ak_handlers) = 1) <=> (ak_draw_handle # None)
    /\ ak_draw_handle # None => ak_draw_handle \in ak_handlers
    /\ ~ak_bad_remove
    /\ Cardinality(lv_handlers) <= 1
    /\ (Cardinality(lv_handlers) = 1) <=> (lv_draw_handle # None)
    /\ lv_draw_handle # None => lv_draw_handle \in lv_handlers
    /\ ~lv_bad_remove

\* both addons hold their handler again after an unregister / register cycle
C2_Witness ==
    /\ ak_load_post = 2
    /\ ak_handlers = {ak_draw_handle}
    /\ ak_draw_handle # None
    /\ lv_op = "register"
    /\ lv_handlers = {lv_draw_handle}
    /\ lv_draw_handle # None

\* C3: once unregister has run, draw_handle is None and no subscription is
\* held under msgbus_owner, until register is called again.
C3_UnregisterIsFinal ==
    ak_life = "unregistered" => (ak_draw_handle = None /\ ak_subs = 0)

\* C4: right after register completes and right after the file-load handler
\* has run, draw_handle is a handle iff the auto-keyframe flag is true.
C4_SyncedAfterLoad ==
    (\/ ak_op = "register"
     \/ (ak_op = "file_load" /\ ak_load_post > 0))
        => ((ak_draw_handle # None) <=> ak_flag)

\* C5: every change of draw_handle between None and a handle,
\* unregister's included, is followed in the same operation by a redraw tag
\* on every VIEW_3D area.
C5_EveryChangeRedraws ==
    ak_changed => View3DAreas \subseteq ak_tagged

----------------------------------------------------------------------------
(* The paint callbacks *)

BlendModes == {"NONE", "ALPHA", "ADDITIVE"}

\* the GPU state a callback works on
Gpu == [blend |-> blend, batches |-> <<>>, sets |-> 0]

blend_set(g, mode) == [g EXCEPT !.blend = mode, !.sets = g.sets + 1]

\* draw_rect: one batch.draw of the rectangle (x1, y1)-(x2, y2)
draw_rect(g, x1, y1, x2, y2) ==
    [g EXCEPT !.batches = Append(g.batches,
        [x1 |-> x1, y1 |-> y1, x2 |-> x2, y2 |-> y2, blend |-> g.blend])]

\* side borders drawn over the full height
DrawBorderFullSides(g, w, h, thickness) ==
    LET g1 == draw_rect(g, 0, h - thickness, w, h)
        g2 == draw_rect(g1, 0, 0, w, thickness)
        g3 == draw_rect(g2, 0, 0, thickness, h)
    IN draw_rect(g3, w - thickness, 0, w, h)

\* the four draw_rect calls: top, bottom, left, right
DrawBorder(g, w, h, thickness) ==
    LET g1 == draw_rect(g, 0, h - thickness, w, h)
        g2 == draw_rect(g1, 0, 0, w, thickness)
        g3 == draw_rect(g2, 0, thickness, thickness, h - thickness)
    IN draw_rect(g3, w - thickness, thickness, w, h - thickness)

\* autokey_highlight.draw_callback_px
ak_draw_callback_px(g, w, h, width) ==
    LET thickness == width + 1
        g1 == blend_set(g, "ALPHA")
        g2 == DrawBorder(g1, w, h, thickness)
    IN blend_set(g2, "NONE")

\* localview_highlight._in_local_view
in_local_view(lv) == lv

\* a callback that returns early after setting the blend mode
lv_draw_callback_px_late_check(g, lv, w, h, width) ==
    LET thickness == width + 1
        g1 == blend_set(g, "ALPHA")
    IN IF ~in_local_view(lv) THEN g1
       ELSE blend_set(DrawBorder(g1, w, h, thickness), "NONE")

\* localview_highlight.draw_callback_px
lv_draw_callback_px(g, lv, w, h, width) ==
    IF ~in_local_view(lv) THEN g
    ELSE LET thickness == width + 1
             g1 == blend_set(g, "ALPHA")
             g2 == DrawBorder(g1, w, h, thickness)
         IN blend_set(g2, "NONE")

GpuStore(g) ==
    /\ blend' = g.blend
    /\ batches' = g.batches
    /\ blend_sets' = g.sets
    /\ blend_before' = blend

\* host events forget the last callback run
NoCallback(b) ==
    /\ batches' = <<>>
    /\ blend_sets' = 0
    /\ blend_before' = b
    /\ callback' = "none"

\* the host resizes the 3D viewport region
HostResize ==
    \E w \in 1..MaxDim, h \in 1..MaxDim :
        /\ region_width' = w
        /\ region_height' = h
        /\ NoCallback(blend)
        /\ UNCHANGED <<blend, border_width, local_view>>
        /\ UNCHANGED <<addonVars, releaseVars>>

\* the user edits border_width in the preferences (IntProperty, min=1)
HostSetBorderWidth ==
    \E bw \in 1..MaxBorderWidth :
        /\ border_width' = bw
        /\ NoCallback(blend)
        /\ UNCHANGED <<blend, region_width, region_height, local_view>>
        /\ UNCHANGED <<addonVars, releaseVars>>

\* other drawing code leaves the GPU in some blend mode
HostSetBlend ==
    \E b \in BlendModes :
        /\ blend' = b
        /\ NoCallback(b)
        /\ UNCHANGED <<region_width, region_height, border_width, local_view>>
        /\ UNCHANGED <<addonVars, releaseVars>>

\* the user enters or leaves Local View
HostToggleLocalView ==
    /\ local_view' = ~local_view
    /\ NoCallback(blend)
    /\ UNCHANGED <<blend, region_width, region_height, border_width>>
    /\ UNCHANGED <<addonVars, releaseVars>>

\* the host repaints a viewport and runs the autokey callback
AkDraw ==
    /\ GpuStore(ak_draw_callback_px(Gpu, region_width, region_height, border_width))
    /\ callback' = "autokey"
    /\ UNCHANGED <<region_width, region_height, border_width, local_view>>
    /\ UNCHANGED <<addonVars, releaseVars>>

\* the host repaints a viewport and runs the localview callback
LvDraw ==
    /\ GpuStore(lv_draw_callback_px(Gpu, local_view, region_width, region_height,
                                    border_width))
    /\ callback' = "localview"
    /\ UNCHANGED <<region_width, region_height, border_width, local_view>>
    /\ UNCHANGED <<addonVars, releaseVars>>


----------------------------------------------------------------------------
(* Properties of the paint callbacks (SpecDraw) *)

Thickness == border_width + 1

Cells == (0..(region_width - 1)) \X (0..(region_height - 1))

\* the unit cell with lower-left corner c lies inside rectangle r
CellIn(c, r) == r.x1 <= c[1] /\ c[1] < r.x2 /\ r.y1 <= c[2] /\ c[2] < r.y2

\* the unit cell lies within t of an edge of the viewport
InFrame(c, t) ==
    \/ c[1] < t
    \/ c[1] >= region_width - t
    \/ c[2] < t
    \/ c[2] >= region_height - t

Covering(c) == {i \in 1..Len(batches) : CellIn(c, batches[i])}

\* C9: for 1 <= t < min(W, H)/2 the four rectangles cover exactly the cells
\* within t of an edge, each by one rectangle only.
C9_BorderTilesFrame ==
    (Len(batches) > 0 /\ 2 * Thickness < region_width /\ 2 * Thickness < region_height)
        => /\ Len(batches) = 4
           /\ \A c \in Cells :
                Cardinality(Covering(c)) = (IF InFrame(c, Thickness) THEN 1 ELSE 0)

\* a 6 x 5 viewport framed with thickness 2: a corner cell is covered by the
\* top rectangle, a side cell by the left one, the centre by none
C9_Witness ==
    /\ callback = "autokey"
    /\ region_width = 6
    /\ region_height = 5
    /\ Thickness = 2
    /\ Covering(<<0, 4>>) = {1}
    /\ Covering(<<0, 2>>) = {3}
    /\ Covering(<<2, 2>>) = {}

\* C10: every batch is drawn with blend mode ALPHA; a callback that set the
\* blend mode leaves it NONE; the localview callback outside Local View draws
\* nothing and leaves the blend mode as it was.
C10_BlendScoped ==
    /\ \A i \in 1..Len(batches) : batches[i].blend = "ALPHA"
    /\ blend_sets > 0 => blend = "NONE"
    /\ (callback = "localview" /\ ~local_view)
          => (batches = <<>> /\ blend_sets = 0 /\ blend = blend_before)
    /\ (callback = "autokey" \/ (callback = "localview" /\ local_view))
          => (Len(batches) = 4 /\ blend_sets = 2)

\* the localview callback ran outside Local View with the GPU in ADDITIVE mode
C10_Witness ==
    /\ callback = "localview"
    /\ ~local_view
    /\ blend_before = "ADDITIVE"
    /\ blend = "ADDITIVE"
    /\ batches = <<>>

----------------------------------------------------------------------------
(* release.py: text, versions and the two metadata files *)

\* Text is a sequence of one-character strings.
Digits == <<"0", "1", "2", "3", "4", "5", "6", "7", "8", "9">>

IsDigit(c) == \E i \in 1..10 : Digits[i] = c

DigitVal(c) == (CHOOSE i \in 1..10 : Digits[i] = c) - 1

NoVersion == <<>>

RECURSIVE ToInt(_)
\* int(text) for a run of decimal digits (leading zeros allowed)
ToInt(text) ==
    IF Len(text) = 0 THEN 0
    ELSE 10 * ToInt(SubSeq(text, 1, Len(text) - 1)) + DigitVal(text[Len(text)])

\* int(text) raises ValueError: empty, or some character is not a digit
IntFails(text) == Len(text) = 0 \/ \E i \in 1..Len(text) : ~IsDigit(text[i])

RECURSIVE ToStr(_)
\* str(n) of a non-negative integer, as an f-string formats it
ToStr(n) ==
    IF n < 10 THEN <<Digits[n + 1]>>
    ELSE Append(ToStr(n \div 10), Digits[(n % 10) + 1])

RECURSIVE Split(_)
\* text.split('.')
Split(text) ==
    IF \A i \in 1..Len(text) : text[i] # "."
    THEN <<text>>
    ELSE LET k == CHOOSE i \in 1..Len(text) :
                      text[i] = "." /\ \A j \in 1..(i - 1) : text[j] # "."
         IN <<SubSeq(text, 1, k - 1)>> \o Split(SubSeq(text, k + 1, Len(text)))

\* tuple(map(int, new_version.split('.'))): the tuple, or a ValueError
ParseVersion(text) ==
    LET parts == Split(text)
    IN IF \E i \in 1..Len(parts) : IntFails(parts[i])
       THEN [error |-> TRUE, value |-> NoVersion]
       ELSE [error |-> FALSE, value |-> [i \in 1..Len(parts) |-> ToInt(parts[i])]]

\* An __init__.py is the sequence of its version-like entries
\*   <quote>version<quote>: (x,<sep1 blanks>y,<sep2 blanks>z)
\* and a blender_manifest.toml the sequence of its lines  <key> = "x.y.z".
InitEntry(quote, sep1, sep2, x, y, z) ==
    [quote |-> quote, sep1 |-> sep1, sep2 |-> sep2, x |-> x, y |-> y, z |-> z]

TomlLine(key, x, y, z) == [key |-> key, x |-> x, y |-> y, z |-> z]

File(entries) == [exists |-> TRUE, entries |-> entries]

MissingFile == [exists |-> FALSE, entries |-> <<>>]

\* ['"]version['"]\s*:\s*\((\d+),\s*(\d+),\s*(\d+)\)
MatchesReadInit(e) == e.quote \in {"single", "double"} /\ e.sep1 >= 0 /\ e.sep2 >= 0

\* "version"\s*:\s*\(\d+, \d+, \d+\)
MatchesWriteInit(e) == e.quote = "double" /\ e.sep1 = 1 /\ e.sep2 = 1

\* ^version\s*=\s*"(\d+)\.(\d+)\.(\d+)" with re.MULTILINE, for reading and writing
MatchesToml(l) == l.key = "version"

Groups(e) == <<ToInt(e.x), ToInt(e.y), ToInt(e.z)>>

\* re.search: the first position that matches, 0 when none does
FirstMatch(matches) ==
    IF \E i \in 1..Len(matches) : matches[i]
    THEN CHOOSE i \in 1..Len(matches) :
            matches[i] /\ \A j \in 1..(i - 1) : ~matches[j]
    ELSE 0

\* read_version_init: [raised, version]
read_version_init(f) ==
    IF ~f.exists THEN [raised |-> "FileNotFoundError", version |-> NoVersion]
    ELSE LET k == FirstMatch([i \in 1..Len(f.entries) |-> MatchesReadInit(f.entries[i])])
         IN IF k = 0 THEN [raised |-> "ValueError", version |-> NoVersion]
            ELSE [raised |-> "", version |-> Groups(f.entries[k])]

\* read_version_toml: [raised, version]
read_version_toml(f) ==
    IF ~f.exists THEN [raised |-> "FileNotFoundError", version |-> NoVersion]
    ELSE LET k == FirstMatch([i \in 1..Len(f.entries) |-> MatchesToml(f.entries[i])])
         IN IF k = 0 THEN [raised |-> "ValueError", version |-> NoVersion]
            ELSE [raised |-> "", version |-> Groups(f.entries[k])]

\* update_version_files, the __init__.py half: re.sub rewrites every match
update_init(f, version) ==
    [f EXCEPT !.entries =
        [i \in 1..Len(f.entries) |->
            IF MatchesWriteInit(f.entries[i])
            THEN InitEntry("double", 1, 1, ToStr(version[1]), ToStr(version[2]),
                           ToStr(version[3]))
            ELSE f.entries[i]]]

\* update_version_files, the blender_manifest.toml half
update_toml(f, version) ==
    [f EXCEPT !.entries =
        [i \in 1..Len(f.entries) |->
            IF MatchesToml(f.entries[i])
            THEN TomlLine("version", ToStr(version[1]), ToStr(version[2]),
                          ToStr(version[3]))
            ELSE f.entries[i]]]

\* tuple comparison  a > b  of two version triples
TupleGreater(a, b) ==
    \/ a[1] > b[1]
    \/ (a[1] = b[1] /\ a[2] > b[2])
    \/ (a[1] = b[1] /\ a[2] = b[2] /\ a[3] > b[3])

\* get_latest_zip_version: the Releases folder holds zips [dev, version];
\* only names extension_autokey_highlight_vX-Y-Z.zip match the pattern
get_latest_zip_version(rel) ==
    IF ~rel.exists THEN NoVersion
    ELSE LET found == {n.version : n \in {m \in rel.zips : ~m.dev}}
         IN IF found = {} THEN NoVersion
            ELSE CHOOSE v \in found : \A u \in found : ~TupleGreater(u, v)

----------------------------------------------------------------------------
(* release.py: main() *)

NoPackage == [invoked |-> FALSE]

\* the script's own state, as main() and the functions it calls change it
RlState ==
    [pc |-> rl_pc, version_init |-> version_init, version_toml |-> version_toml,
     latest_zip_version |-> latest_zip_version, version_tuple |-> version_tuple,
     printed |-> rl_printed, outcome |-> rl_outcome, package |-> rl_package,
     writes |-> rl_writes, init_file |-> init_file, toml_file |-> toml_file]

\* print(message); return
Return(m, message) ==
    [m EXCEPT !.pc = "exit", !.outcome = "returned", !.printed = message]

\* an exception nothing catches: the interpreter prints it and the run ends
Raise(m, message) ==
    [m EXCEPT !.pc = "exit", !.outcome = "raised", !.printed = message]

\* create_zip, after create_dev_copy when --dev is given
create_zip(m, is_dev) ==
    IF Len(m.version_tuple) < 3
    THEN Raise(m, "IndexError: tuple index out of range")
    ELSE [m EXCEPT
            !.package = [invoked |-> TRUE,
                         version |-> SubSeq(m.version_tuple, 1, 3),
                         source |-> IF is_dev THEN "autokey_highlight_dev"
                                    ELSE "autokey_highlight",
                         init_version |-> read_version_init(m.init_file).version,
                         toml_version |-> read_version_toml(m.toml_file).version],
            !.printed = "Release zip created",
            !.pc = "exit",
            !.outcome = "built"]

\* main(), lines 162-186: the collision check, then the build
CheckCollision(m, is_dev) ==
    IF ~is_dev /\ m.latest_zip_version = m.version_tuple
    THEN [m EXCEPT !.pc = "collision_prompt",
                   !.printed = "A release with this version already exists."]
    ELSE create_zip(m, is_dev)

\* main(), lines 130-146: up to the first prompt, or to the end of the run
MainStart(m, has_blender, has_folder, is_dev, rel) ==
    IF ~has_blender THEN Return(m, "Error: Blender Executable not found")
    ELSE IF ~has_folder THEN Return(m, "Error: Extension not found")
    ELSE
      LET ri == read_version_init(m.init_file)
          rt == read_version_toml(m.toml_file)
      IN IF ri.raised = "FileNotFoundError" THEN Raise(m, "File not found: __init__.py")
         ELSE IF ri.raised = "ValueError" THEN Raise(m, "Version not found in __init__.py")
         ELSE IF rt.raised = "FileNotFoundError"
              THEN Raise([m EXCEPT !.version_init = ri.version],
                         "File not found: blender_manifest.toml")
         ELSE IF rt.raised = "ValueError"
              THEN Raise([m EXCEPT !.version_init = ri.version],
                         "Version not found in blender_manifest.toml")
         ELSE
           LET m1 == [m EXCEPT !.version_init = ri.version,
                               !.version_toml = rt.version,
                               !.latest_zip_version = get_latest_zip_version(rel)]
           IN IF m1.version_init # m1.version_toml
              THEN [m1 EXCEPT !.pc = "mismatch_prompt",
                              !.printed = "Version mismatch detected"]
              ELSE CheckCollision([m1 EXCEPT !.version_tuple = m1.version_init], is_dev)

\* a mismatch prompt that falls back to the __init__.py version on a bad answer
MismatchAnsweredLenient(m, text, is_dev) ==
    LET r == ParseVersion(text)
    IN IF Len(text) > 0 /\ ~r.error /\ Len(r.value) = 3
       THEN CheckCollision([m EXCEPT !.version_tuple = r.value,
                                     !.printed = "Using manually entered version"],
                           is_dev)
       ELSE CheckCollision([m EXCEPT !.version_tuple = m.version_init,
                                     !.printed = "Invalid version format."], is_dev)

\* main(), lines 146-157: the answer to "Enter new version (X.Y.Z) or press Enter"
MismatchAnswered(m, text, is_dev) ==
    IF Len(text) > 0
    THEN LET r == ParseVersion(text)
         IN IF r.error
            THEN Return(m, "Invalid version format. Aborting.")
            ELSE IF Len(r.value) # 3
            THEN Return([m EXCEPT !.version_tuple = r.value],
                        "Invalid version format. Aborting.")
            ELSE CheckCollision([m EXCEPT !.version_tuple = r.value,
                                          !.printed = "Using manually entered version"],
                                is_dev)
    ELSE CheckCollision([m EXCEPT !.version_tuple = m.version_init], is_dev)

\* main(), lines 166-183: the answer to "(O)verwrite, (I)ncrement version, or (C)ancel?"
CollisionAnswered(m, response, is_dev) ==
    IF response = "o" THEN create_zip(m, is_dev)
    ELSE IF response = "i" THEN [m EXCEPT !.pc = "increment_prompt"]
    ELSE IF response = "c" THEN Return(m, "Operation canceled.")
    ELSE [m EXCEPT !.printed = "Invalid input. Please enter O, I, or C."]

\* update_version_files
update_version_files(m, version) ==
    [m EXCEPT !.init_file = update_init(m.init_file, version),
              !.toml_file = update_toml(m.toml_file, version),
              !.writes = m.writes + 1]

\* main(), lines 170-178: the answer to "Enter new version (X.Y.Z)"
IncrementAnswered(m, text, is_dev) ==
    LET r == ParseVersion(text)
    IN IF r.error
       THEN [m EXCEPT !.pc = "collision_prompt",
                      !.printed = "Invalid version format. Try again."]
       ELSE IF Len(r.value) # 3
       THEN [m EXCEPT !.version_tuple = r.value,
                      !.pc = "collision_prompt",
                      !.printed = "Invalid version format. Try again."]
       ELSE create_zip(update_version_files([m EXCEPT !.version_tuple = r.value],
                                            r.value), is_dev)

RlStore(m) ==
    /\ rl_pc' = m.pc
    /\ version_init' = m.version_init
    /\ version_toml' = m.version_toml
    /\ latest_zip_version' = m.latest_zip_version
    /\ version_tuple' = m.version_tuple
    /\ rl_printed' = m.printed
    /\ rl_outcome' = m.outcome
    /\ rl_package' = m.package
    /\ rl_writes' = m.writes
    /\ init_file' = m.init_file
    /\ toml_file' = m.toml_file

rlEnv == <<blender_ok, folder_ok, dev, releases, rt_version>>

\* what the user may type at a version prompt, after strip():
\*   "", "1.0.4", "1.0.2", "01.0.4", "1.0", "1.0.4.1", "1.x.4"
VersionAnswers ==
    { <<>>,
      <<"1", ".", "0", ".", "4">>,
      <<"1", ".", "0", ".", "2">>,
      <<"0", "1", ".", "0", ".", "4">>,
      <<"1", ".", "0">>,
      <<"1", ".", "0", ".", "4", ".", "1">>,
      <<"1", ".", "x", ".", "4">> }

\* what the user may type at the O/I/C prompt, after strip().lower()
ChoiceAnswers == {"o", "i", "c", "x"}

NoInput == [at |-> "none", text |-> <<>>]

RlRun ==
    /\ rl_pc = "start"
    /\ RlStore(MainStart(RlState, blender_ok, folder_ok, dev, releases))
    /\ UNCHANGED <<rl_input, rl_mismatch>>
    /\ UNCHANGED rlEnv
    /\ UNCHANGED <<addonVars, drawVars>>

RlAnswerMismatch ==
    /\ rl_pc = "mismatch_prompt"
    /\ \E text \in VersionAnswers :
          /\ RlStore(MismatchAnswered(RlState, text, dev))
          /\ rl_input' = [at |-> "mismatch", text |-> text]
          /\ rl_mismatch' = [asked |-> TRUE, text |-> text]
    /\ UNCHANGED rlEnv
    /\ UNCHANGED <<addonVars, drawVars>>

RlAnswerCollision ==
    /\ rl_pc = "collision_prompt"
    /\ \E response \in ChoiceAnswers :
          /\ RlStore(CollisionAnswered(RlState, response, dev))
          /\ rl_input' = [at |-> "collision", text |-> <<response>>]
    /\ UNCHANGED rl_mismatch
    /\ UNCHANGED rlEnv
    /\ UNCHANGED <<addonVars, drawVars>>

RlAnswerIncrement ==
    /\ rl_pc = "increment_prompt"
    /\ \E text \in VersionAnswers :
          /\ RlStore(IncrementAnswered(RlState, text, dev))
          /\ rl_input' = [at |-> "increment", text |-> text]
    /\ UNCHANGED rl_mismatch
    /\ UNCHANGED rlEnv
    /\ UNCHANGED <<addonVars, drawVars>>

----------------------------------------------------------------------------
(* update_version_files followed by the readers *)

RtUpdate ==
    /\ rl_pc = "roundtrip"
    /\ \E x \in 0..MaxComponent, y \in 0..MaxComponent, z \in 0..MaxComponent :
          LET m == update_version_files(RlState, <<x, y, z>>)
          IN /\ RlStore([m EXCEPT !.pc = "roundtrip_done",
                                  !.version_init = read_version_init(m.init_file).version,
                                  !.version_toml = read_version_toml(m.toml_file).version])
             /\ rt_version' = <<x, y, z>>
    /\ UNCHANGED <<blender_ok, folder_ok, dev, releases, rl_input, rl_mismatch>>
    /\ UNCHANGED <<addonVars, drawVars>>

----------------------------------------------------------------------------
(* Specifications *)

ReleaseIdle ==
    /\ blender_ok = TRUE
    /\ folder_ok = TRUE
    /\ dev = FALSE
    /\ init_file = MissingFile
    /\ toml_file = MissingFile
    /\ releases = [exists |-> FALSE, zips |-> {}]
    /\ rl_pc = "idle"
    /\ version_init = NoVersion
    /\ version_toml = NoVersion
    /\ latest_zip_version = NoVersion
    /\ version_tuple = NoVersion
    /\ rl_printed = ""
    /\ rl_outcome = "running"
    /\ rl_package = NoPackage
    /\ rl_writes = 0
    /\ rl_input = NoInput
    /\ rl_mismatch = [asked |-> FALSE, text |-> <<>>]
    /\ rt_version = NoVersion

DrawIdle ==
    /\ blend = "NONE"
    /\ region_width = 1
    /\ region_height = 1
    /\ border_width = 1
    /\ local_view = FALSE
    /\ batches = <<>>
    /\ blend_before = "NONE"
    /\ blend_sets = 0
    /\ callback = "none"

AddonInit ==
    /\ ak_draw_handle = None
    /\ ak_handlers = {}
    /\ ak_subs = 0
    /\ ak_pending = FALSE
    /\ ak_load_post = 0
    /\ ak_classes = FALSE
    /\ ak_flag \in BOOLEAN
    /\ areas \in [AreaIds -> AreaTypes]
    /\ ak_tagged = {}
    /\ ak_changed = FALSE
    /\ ak_log = <<>>
    /\ ak_bad_remove = FALSE
    /\ ak_life = "fresh"
    /\ ak_synced = 0
    /\ lv_draw_handle = None
    /\ lv_handlers = {}
    /\ lv_classes = FALSE
    /\ lv_background \in BOOLEAN
    /\ lv_bad_remove = FALSE
    /\ ak_op = "init"
    /\ lv_op = "init"

Init == AddonInit /\ DrawIdle /\ ReleaseIdle

Next ==
    \/ AkRegister
    \/ AkUnregister
    \/ AkFileLoad
    \/ AkSetFlag
    \/ AkNotify
    \/ LvRegister
    \/ LvUnregister

Spec == Init /\ [][Next]_vars

DrawInit ==
    /\ blend \in BlendModes
    /\ region_width \in 1..MaxDim
    /\ region_height \in 1..MaxDim
    /\ border_width \in 1..MaxBorderWidth
    /\ local_view \in BOOLEAN
    /\ batches = <<>>
    /\ blend_before = blend
    /\ blend_sets = 0
    /\ callback = "none"

AddonIdle ==
    /\ ak_draw_handle = None
    /\ ak_handlers = {}
    /\ ak_subs = 0
    /\ ak_pending = FALSE
    /\ ak_load_post = 0
    /\ ak_classes = FALSE
    /\ ak_flag = FALSE
    /\ areas = [a \in AreaIds |-> "VIEW_3D"]
    /\ ak_tagged = {}
    /\ ak_changed = FALSE
    /\ ak_log = <<>>
    /\ ak_bad_remove = FALSE
    /\ ak_life = "fresh"
    /\ ak_synced = 0
    /\ lv_draw_handle = None
    /\ lv_handlers = {}
    /\ lv_classes = FALSE
    /\ lv_background = FALSE
    /\ lv_bad_remove = FALSE
    /\ ak_op = "init"
    /\ lv_op = "init"

InitDraw == AddonIdle /\ DrawInit /\ ReleaseIdle

NextDraw ==
    \/ HostResize
    \/ HostSetBorderWidth
    \/ HostSetBlend
    \/ HostToggleLocalView
    \/ AkDraw
    \/ LvDraw

SpecDraw == InitDraw /\ [][NextDraw]_vars

\* version strings found in the metadata files
D(n) == ToStr(n)

V102 == <<1, 0, 2>>
V103 == <<1, 0, 3>>

\* the __init__.py files the script is run on
ReleaseInitFiles ==
    { MissingFile,
      File(<<>>),
      File(<<InitEntry("double", 1, 1, D(1), D(0), D(2))>>),
      File(<<InitEntry("double", 1, 1, D(1), D(0), D(3))>>),
      File(<<InitEntry("single", 1, 1, D(1), D(0), D(2))>>) }

\* the blender_manifest.toml files the script is run on
ReleaseTomlFiles ==
    { MissingFile,
      File(<<TomlLine("schema_version", D(1), D(0), D(0))>>),
      File(<<TomlLine("schema_version", D(1), D(0), D(0)),
             TomlLine("version", D(1), D(0), D(2))>>),
      File(<<TomlLine("schema_version", D(1), D(0), D(0)),
             TomlLine("version", D(1), D(0), D(3))>>) }

\* the Releases folders the script is run on
ReleaseFolders ==
    { [exists |-> FALSE, zips |-> {}],
      [exists |-> TRUE, zips |-> {}],
      [exists |-> TRUE, zips |-> {[dev |-> FALSE, version |-> V102]}],
      [exists |-> TRUE, zips |-> {[dev |-> TRUE, version |-> V103],
                                  [dev |-> FALSE, version |-> V102]}],
      [exists |-> TRUE, zips |-> {[dev |-> FALSE, version |-> V102],
                                  [dev |-> FALSE, version |-> V103]}],
      [exists |-> TRUE, zips |-> {[dev |-> FALSE, version |-> <<1, 0, 4>>]}] }

InitRelease ==
    /\ AddonIdle
    /\ DrawIdle
    /\ blender_ok \in BOOLEAN
    /\ folder_ok \in BOOLEAN
    /\ dev \in BOOLEAN
    /\ init_file \in ReleaseInitFiles
    /\ toml_file \in ReleaseTomlFiles
    /\ (~folder_ok => (init_file = MissingFile /\ toml_file = MissingFile))
    /\ releases \in ReleaseFolders
    /\ rl_pc = "start"
    /\ version_init = NoVersion
    /\ version_toml = NoVersion
    /\ latest_zip_version = NoVersion
    /\ version_tuple = NoVersion
    /\ rl_printed = ""
    /\ rl_outcome = "running"
    /\ rl_package = NoPackage
    /\ rl_writes = 0
    /\ rl_input = NoInput
    /\ rl_mismatch = [asked |-> FALSE, text |-> <<>>]
    /\ rt_version = NoVersion

NextRelease ==
    \/ RlRun
    \/ RlAnswerMismatch
    \/ RlAnswerCollision
    \/ RlAnswerIncrement

SpecRelease == InitRelease /\ [][NextRelease]_vars

\* __init__.py files read_version_init extracts a version from
RoundTripInitFiles ==
    { File(<<InitEntry("double", 1, 1, D(1), D(0), D(2))>>),
      File(<<InitEntry("double", 1, 1, <<"0", "1">>, D(0), D(12))>>),
      File(<<InitEntry("single", 1, 1, D(1), D(0), D(2))>>),
      File(<<InitEntry("double", 0, 0, D(1), D(0), D(2))>>),
      File(<<InitEntry("double", 1, 2, D(1), D(0), D(2))>>),
      File(<<InitEntry("double", 1, 1, D(1), D(0), D(2)),
             InitEntry("double", 1, 1, D(2), D(8), D(0))>>),
      File(<<InitEntry("single", 1, 1, D(1), D(0), D(2)),
             InitEntry("double", 1, 1, D(1), D(0), D(2))>>) }

\* blender_manifest.toml files read_version_toml extracts a version from
RoundTripTomlFiles ==
    { File(<<TomlLine("version", D(1), D(0), D(2))>>),
      File(<<TomlLine("schema_version", D(1), D(0), D(0)),
             TomlLine("version", D(1), D(0), D(2))>>),
      File(<<TomlLine("version", D(1), D(0), D(2)),
             TomlLine("version", <<"0", "3">>, D(0), D(10))>>) }

InitRoundTrip ==
    /\ AddonIdle
    /\ DrawIdle
    /\ blender_ok = TRUE
    /\ folder_ok = TRUE
    /\ dev = FALSE
    /\ init_file \in RoundTripInitFiles
    /\ toml_file \in RoundTripTomlFiles
    /\ releases = [exists |-> FALSE, zips |-> {}]
    /\ rl_pc = "roundtrip"
    /\ version_init = read_version_init(init_file).version
    /\ version_toml = read_version_toml(toml_file).version
    /\ latest_zip_version = NoVersion
    /\ version_tuple = NoVersion
    /\ rl_printed = ""
    /\ rl_outcome = "running"
    /\ rl_package = NoPackage
    /\ rl_writes = 0
    /\ rl_input = NoInput
    /\ rl_mismatch = [asked |-> FALSE, text |-> <<>>]
    /\ rt_version = NoVersion

NextRoundTrip == RtUpdate

SpecRoundTrip == InitRoundTrip /\ [][NextRoundTrip]_vars

----------------------------------------------------------------------------
(* Properties of release.py (SpecRelease, SpecRoundTrip) *)

\* text reads X.Y.Z: three non-empty runs of digits
WellFormed(text) ==
    LET parts == Split(text)
    IN /\ Len(parts) = 3
       /\ \A i \in 1..3 :
            Len(parts[i]) > 0 /\ \A j \in 1..Len(parts[i]) : IsDigit(parts[i][j])

\* C6: a well-formed version entered at the mismatch prompt is in both
\* metadata files when the packaging command is invoked with it; after an
\* empty answer the archive is built with the __init__.py version.
C6_MismatchAnswerWritten ==
    (rl_package.invoked /\ rl_mismatch.asked) =>
        /\ (WellFormed(rl_mismatch.text)
              /\ rl_package.version = ParseVersion(rl_mismatch.text).value)
             => (/\ rl_package.init_version = rl_package.version
                 /\ rl_package.toml_version = rl_package.version)
        /\ (rl_mismatch.text = <<>> /\ rl_writes = 0)
             => rl_package.version = version_init

\* the failure conditions, read off the script's inputs
BlenderMissing == rl_pc # "start" /\ ~blender_ok
FolderMissing == rl_pc # "start" /\ blender_ok /\ ~folder_ok
InitUnreadable ==
    /\ rl_pc # "start" /\ blender_ok /\ folder_ok
    /\ read_version_init(init_file).raised # ""
TomlUnreadable ==
    /\ rl_pc # "start" /\ blender_ok /\ folder_ok
    /\ read_version_init(init_file).raised = ""
    /\ read_version_toml(toml_file).raised # ""
BadVersionAtMismatch ==
    rl_input.at = "mismatch" /\ rl_input.text # <<>> /\ ~WellFormed(rl_input.text)
BadVersionAtIncrement == rl_input.at = "increment" /\ ~WellFormed(rl_input.text)
Cancelled == rl_input.at = "collision" /\ rl_input.text = <<"c">>

\* the run is over, a message was printed, nothing was packaged or written,
\* and no prompt is open
EndedWithMessage ==
    /\ rl_pc = "exit"
    /\ rl_outcome \in {"returned", "raised"}
    /\ rl_printed # ""
    /\ ~rl_package.invoked
    /\ rl_writes = 0

C8_RoundTrip ==
    rl_pc = "roundtrip_done"
        => (version_init = rt_version /\ version_toml = rt_version)

=============================================================================
